---------------------------- MODULE Spec2Model ----------------------------
(***************************************************************************)
(* Nusantara maritime movement system (src/movement.py).                   *)
(*                                                                         *)
(* The controller owns a registry of islands, four voyage counters, a      *)
(* derived network state and a monsoon calculator.  navigate_between_      *)
(* islands is the only operation that changes the controller; the monsoon  *)
(* calculator can also be advanced directly through advance_cycle.         *)
(*                                                                         *)
(* Python floats are modelled as fixed-point numbers, an integer count of  *)
(* units of 1/Scale.  Scale is chosen so that every quantity the code      *)
(* computes on the modelled registries (connectivity steps of 0.05, the    *)
(* mean of two connectivities, the mean over a registry of up to three     *)
(* islands, its half) is a whole number of units, so \div is exact         *)
(* wherever the code divides.                                              *)
(***************************************************************************)
EXTENDS Integers, Sequences, FiniteSets, TLC

\* One unit of the fixed-point representation of a float is 1/Scale.
Scale == 1200

\* The float literal n/100 of the source, in units of 1/Scale.
Frac(n) == (n * Scale) \div 100

\* ------------------------------------------------------------- bounds --
\* Accepted voyages explored on a controller of several islands.
MaxVoyages == 3
\* Accepted voyages explored on a controller of one island, whose states are
\* few: deep enough for its connectivity to reach both ends of [0, 1].
MaxSoloVoyages == 9
\* The small `days` arguments given to advance_cycle when it is called
\* directly are 1..MaxDays (the large ones are in DaysDraws).
MaxDays == 2
\* Phase transitions explored (the transition count is a history counter).
MaxTransitions == 5
\* Accepted voyages explored on a controller that sails one route only: more
\* than two monsoon phases of 180.
MaxSeasonVoyages == 365
\* Successful voyages explored on that controller.
MaxSeasonSuccesses == 4

\* ------------------------------------------------------ enumerations --
NORTHEAST_MONSOON == "northeast"
SOUTHWEST_MONSOON == "southwest"
TRANSITION_PERIOD == "transition"
MonsoonPhase == {NORTHEAST_MONSOON, SOUTHWEST_MONSOON, TRANSITION_PERIOD}

MARITIME_HUB == "maritime_hub"
SPICE_PRODUCER == "spice_producer"
CULTURAL_NODE == "cultural_node"
TECH_ENTREPOT == "tech_entrepot"
IslandSpecialization == {MARITIME_HUB, SPICE_PRODUCER, CULTURAL_NODE, TECH_ENTREPOT}

FRAGMENTED == "FRAGMENTED"
CONNECTING == "CONNECTING"
SYNCHRONIZED == "SYNCHRONIZED"
DISRUPTED == "DISRUPTED"
TRANSCENDENT == "TRANSCENDENT"
NetworkState == {FRAGMENTED, CONNECTING, SYNCHRONIZED, DISRUPTED, TRANSCENDENT}

\* ------------------------------------------------------------ helpers --
Max(a, b) == IF a >= b THEN a ELSE b
Min(a, b) == IF a <= b THEN a ELSE b

RECURSIVE SumOver(_, _)
\* sum(f[x] for x in S)
SumOver(f, S) ==
    IF S = {} THEN 0
    ELSE LET x == CHOOSE y \in S : TRUE
         IN f[x] + SumOver(f, S \ {x})

\* ---------------------------------------------------------- the inputs --
\* The name-to-specialization mappings a controller is constructed from:
\* the first three islands of the example network, its two spice producers
\* (two islands of one specialization), a single island, and the empty
\* mapping (the constructor accepts any mapping).
ExampleNetwork ==
    [n \in {"java", "sumatra", "borneo"} |->
        CASE n = "java" -> CULTURAL_NODE
          [] n = "sumatra" -> SPICE_PRODUCER
          [] n = "borneo" -> MARITIME_HUB]
TwinNetwork == [n \in {"sumatra", "mindanao"} |-> SPICE_PRODUCER]
SingleNetwork == [n \in {"java"} |-> CULTURAL_NODE]
EmptyNetwork == [n \in {} |-> CULTURAL_NODE]
Networks == {ExampleNetwork, TwinNetwork, SingleNetwork, EmptyNetwork}

\* The names callers pass to navigate: the registered ones and one that no
\* modelled registry holds.
IslandNames == {"java", "sumatra", "borneo", "mindanao", "atlantis"}

\* The names callers pass to is_navigation_favorable: every name of the
\* route tables, one name of no table, and one name in another case.
RouteNames ==
    {"java", "sumatra", "borneo", "sulawesi", "mindanao", "visayas", "atlantis", "Java"}

\* The intents callers pass to navigate.
Intents == {"trade", "cultural"}

\* Values of random.random(), in units of 1/Scale (0 <= draw < Scale).
RandomDraws == {0, Frac(20), Scale - 1}

\* The two ends of random.random(): below every success probability (at
\* least 0.05) and above every one (at most 0.95).
SeasonDraws == {0, Scale - 1}

\* The draws a successful voyage makes after the outcome draw: the three
\* random.randint values of the cultural exchange (1..5, 1..3, 0..2), the
\* random.randint(50, 200) of the trade volume, and the positions of
\* all_knowledge that random.sample picks, in the order picked (distinct
\* positions; their number is the num_transfers drawn by random.randint).
PayloadDraws ==
    { [ cx |-> [navigation_knowledge |-> 1, trade_practices |-> 1, cultural_artifacts |-> 0],
        tv |-> 50, sample |-> <<1>> ],
      [ cx |-> [navigation_knowledge |-> 5, trade_practices |-> 3, cultural_artifacts |-> 2],
        tv |-> 200, sample |-> <<1, 4>> ],
      [ cx |-> [navigation_knowledge |-> 3, trade_practices |-> 2, cultural_artifacts |-> 0],
        tv |-> 125, sample |-> <<3, 6, 2>> ] }

\* MonsoonCalculator._phase_duration: days per phase.
_phase_duration == 180

\* The `days` arguments of direct advance_cycle calls: small steps, the last
\* day before the threshold, the threshold, and two thresholds at once.
DaysDraws ==
    (1..MaxDays) \cup {_phase_duration - 1, _phase_duration, 2 * _phase_duration}

\* str.lower() on the names of the model.
Lower(s) ==
    CASE s = "Java" -> "java"
      [] OTHER -> s

\* ------------------------------------------------------ MonsoonCalculator --

\* route_favorability[phase]: the ordered pairs the phase favours.
route_favorability(phase) ==
    CASE phase = NORTHEAST_MONSOON ->
            { <<"java", "sumatra", Frac(80)>>,
              <<"borneo", "sulawesi", Frac(90)>>,
              <<"mindanao", "visayas", Frac(70)>> }
      [] phase = SOUTHWEST_MONSOON ->
            { <<"sumatra", "java", Frac(80)>>,
              <<"sulawesi", "borneo", Frac(90)>>,
              <<"visayas", "mindanao", Frac(70)>> }
      [] OTHER -> {}

\* dict.get(key, default) on a table of <<a, b, value>> entries.
TableGet(table, a, b, default) ==
    IF \E e \in table : e[1] = a /\ e[2] = b
    THEN (CHOOSE e \in table : e[1] = a /\ e[2] = b)[3]
    ELSE default

\* is_navigation_favorable looking up the route in the direction sailed only.
favorable_in_direction_sailed(phase, origin, destination) ==
    LET factor == TableGet(route_favorability(phase), Lower(origin), Lower(destination),
                           Frac(50))
    IN [favorable |-> factor > Frac(60), factor |-> factor]

\* is_navigation_favorable: (factor > 0.6, factor)
is_navigation_favorable(phase, origin, destination) ==
    LET favorability == route_favorability(phase)
        factor == TableGet(favorability, Lower(origin), Lower(destination),
                           TableGet(favorability, Lower(destination), Lower(origin),
                                    Frac(50)))
    IN [favorable |-> factor > Frac(60), factor |-> factor]

\* _transition_phase: transitions.get(current_phase, NORTHEAST_MONSOON)
_transition_phase(phase) ==
    CASE phase = NORTHEAST_MONSOON -> TRANSITION_PERIOD
      [] phase = TRANSITION_PERIOD -> SOUTHWEST_MONSOON
      [] phase = SOUTHWEST_MONSOON -> TRANSITION_PERIOD
      [] OTHER -> NORTHEAST_MONSOON

\* ---------------------------------------------------- NetworkSyncCalculator --
SYNC_THRESHOLD == Frac(75)
DISRUPTION_THRESHOLD == Frac(30)
TRANSCENDENCE_THRESHOLD == Frac(95)

\* The mean of an island's cultural_resonance values.
avg_resonance(island) ==
    SumOver(island.cultural_resonance, DOMAIN island.cultural_resonance)
        \div Cardinality(DOMAIN island.cultural_resonance)

\* _calculate_cultural_alignment answering the neutral 0.5 for a registry of
\* fewer than two islands.
cultural_alignment_neutral_below_two(isl) ==
    IF Cardinality(DOMAIN isl) < 2 THEN Frac(50)
    ELSE LET with == {n \in DOMAIN isl : DOMAIN isl[n].cultural_resonance # {}}
             res == [n \in with |-> avg_resonance(isl[n])]
         IN IF with = {} THEN Frac(50)
            ELSE LET mean == SumOver(res, with) \div Cardinality(with)
                     sq == [n \in with |-> ((res[n] - mean) * (res[n] - mean)) \div Scale]
                 IN Max(0, Scale - (SumOver(sq, with) \div Cardinality(with)))

\* _calculate_cultural_alignment
_calculate_cultural_alignment(isl) ==
    IF Cardinality(DOMAIN isl) < 2 THEN Scale
    ELSE LET with == {n \in DOMAIN isl : DOMAIN isl[n].cultural_resonance # {}}
             k == Cardinality(with)
             res == [n \in with |-> avg_resonance(isl[n])]
         IN IF with = {} THEN Frac(50)
            ELSE LET mean == SumOver(res, with) \div k
                     sq == [n \in with |-> ((res[n] - mean) * (res[n] - mean)) \div Scale]
                     variance == SumOver(sq, with) \div k
                 IN Max(0, Scale - variance)

\* calculate_network_coherence
calculate_network_coherence(isl) ==
    IF DOMAIN isl = {} THEN 0
    ELSE LET conn == [n \in DOMAIN isl |-> isl[n].network_connectivity]
             avg_connectivity == SumOver(conn, DOMAIN isl) \div Cardinality(DOMAIN isl)
         IN (avg_connectivity + _calculate_cultural_alignment(isl)) \div 2

\* ------------------------------------------------------------ the state --
VARIABLES
    islands,              \* self.islands: name -> IslandState
    network_state,        \* self.network_state
    _total_voyages,       \* self._total_voyages
    _successful_voyages,  \* self._successful_voyages
    _cultural_exchanges,  \* self._cultural_exchanges
    _disruption_events,   \* self._disruption_events
    current_phase,        \* self.monsoon_calc.current_phase
    _day_counter,         \* self.monsoon_calc._day_counter
    phase_transitions,    \* history: calls of _transition_phase so far
    op,                   \* the operation last called
    call,                 \* its arguments and the random draw it consumed
    raised,               \* the exception it raised, or "none"
    result                \* the NavigationResult it returned

vars == << islands, network_state, _total_voyages, _successful_voyages,
           _cultural_exchanges, _disruption_events, current_phase, _day_counter,
           phase_transitions, op, call, raised, result >>

\* IslandState as the constructor builds it.
IslandState(name, spec) ==
    [ name |-> name,
      specialization |-> spec,
      autonomy_level |-> Frac(80),
      network_connectivity |-> Frac(40),
      cultural_resonance |-> [t \in {"shared_heritage", "trade_language"} |->
                                 IF t = "shared_heritage" THEN Frac(60) ELSE Frac(50)],
      resource_capacity |-> 100,
      innovation_index |-> 0 ]

\* What `result` holds while no call has returned a NavigationResult.
NoResult ==
    [ success |-> FALSE, origin_island |-> "", destination_island |-> "",
      route_taken |-> <<>>, monsoon_favorable |-> FALSE,
      cultural_exchange |-> <<>>, trade_volume |-> 0,
      knowledge_transferred |-> <<>>, network_effects |-> <<>> ]

NoCall ==
    [origin |-> "", destination |-> "", random |-> -1, final_success_prob |-> -1,
     days |-> 0]

\* NusantaraMovementController.__init__
Init ==
    /\ \E island_network \in Networks :
          islands = [n \in DOMAIN island_network |-> IslandState(n, island_network[n])]
    /\ network_state = FRAGMENTED
    /\ _total_voyages = 0
    /\ _successful_voyages = 0
    /\ _cultural_exchanges = 0
    /\ _disruption_events = 0
    /\ current_phase = NORTHEAST_MONSOON
    /\ _day_counter = 0
    /\ phase_transitions = 0
    /\ op = "init"
    /\ call = NoCall
    /\ raised = "none"
    /\ result = NoResult

\* ------------------------------------------------------- the controller --
\* voyage_success_rate > 0.5, the one use the code makes of the rate.  The
\* rate is successful / total; in fixed point the quotient is floored, which
\* leaves the comparison with one half unchanged while total <= Scale / 2.
voyage_success_rate(total, successful) ==
    IF total = 0 THEN 0 ELSE (successful * Scale) \div total

\* _calculate_specialization_synergy looking up the pair in the order given only.
synergy_in_order_given(origin, dest) ==
    LET synergies == { <<MARITIME_HUB, SPICE_PRODUCER, Frac(20)>>,
                       <<TECH_ENTREPOT, CULTURAL_NODE, Frac(25)>>,
                       <<CULTURAL_NODE, SPICE_PRODUCER, Frac(15)>>,
                       <<MARITIME_HUB, TECH_ENTREPOT, Frac(30)>> }
    IN TableGet(synergies, origin.specialization, dest.specialization, 0)

\* _calculate_specialization_synergy
_calculate_specialization_synergy(origin, dest) ==
    LET synergies == { <<MARITIME_HUB, SPICE_PRODUCER, Frac(20)>>,
                       <<TECH_ENTREPOT, CULTURAL_NODE, Frac(25)>>,
                       <<CULTURAL_NODE, SPICE_PRODUCER, Frac(15)>>,
                       <<MARITIME_HUB, TECH_ENTREPOT, Frac(30)>> }
    IN TableGet(synergies, origin.specialization, dest.specialization,
                TableGet(synergies, dest.specialization, origin.specialization, 0))

\* The success probability without its clamp to [0.05, 0.95].
final_success_prob_unclamped(isl, phase, origin, destination) ==
    LET fav == is_navigation_favorable(phase, origin, destination)
        base_success ==
            (isl[origin].network_connectivity + isl[destination].network_connectivity) \div 2
        monsoon_bonus == IF fav.favorable THEN Frac(30) ELSE - Frac(20)
    IN base_success + monsoon_bonus
          + _calculate_specialization_synergy(isl[origin], isl[destination])

\* navigate_between_islands, lines 230-243: the success probability.
final_success_prob(isl, phase, origin, destination) ==
    LET fav == is_navigation_favorable(phase, origin, destination)
        origin_island == isl[origin]
        dest_island == isl[destination]
        base_success ==
            (origin_island.network_connectivity + dest_island.network_connectivity) \div 2
        monsoon_bonus == IF fav.favorable THEN Frac(30) ELSE - Frac(20)
        synergy_bonus == _calculate_specialization_synergy(origin_island, dest_island)
    IN Min(Frac(95), Max(Frac(5), base_success + monsoon_bonus + synergy_bonus))

\* navigate_between_islands, line 246: random.random() < final_success_prob
navigation_success(random, prob) == random < prob

\* _update_island_connectivity without the lower clamp.
update_island_connectivity_no_floor(island, change) ==
    [island EXCEPT !.network_connectivity = Min(Scale, island.network_connectivity + change)]

\* _update_island_connectivity
_update_island_connectivity(island, change) ==
    LET new_connectivity == Max(0, Min(Scale, island.network_connectivity + change))
    IN [ name |-> island.name,
         specialization |-> island.specialization,
         autonomy_level |-> island.autonomy_level,
         network_connectivity |-> new_connectivity,
         cultural_resonance |-> island.cultural_resonance,
         resource_capacity |-> island.resource_capacity,
         innovation_index |-> island.innovation_index ]

\* transfer_patterns of _generate_knowledge_transfer
transfer_patterns(spec) ==
    CASE spec = MARITIME_HUB ->
            <<"navigation_techniques", "port_management", "weather_prediction">>
      [] spec = SPICE_PRODUCER ->
            <<"agricultural_methods", "preservation_techniques", "trade_goods">>
      [] spec = CULTURAL_NODE ->
            <<"religious_practices", "artistic_techniques", "philosophical_concepts">>
      [] spec = TECH_ENTREPOT ->
            <<"manufacturing_processes", "technological_innovations", "trade_networks">>
      [] OTHER -> <<>>

\* _generate_knowledge_transfer; `sample` is the positions random.sample picks,
\* Len(sample) the num_transfers that random.randint(1, min(3, len)) returned.
_generate_knowledge_transfer(origin, dest, sample) ==
    LET all_knowledge == transfer_patterns(origin.specialization)
                            \o transfer_patterns(dest.specialization)
    IN IF all_knowledge = <<>> THEN <<>>
       ELSE [i \in 1..Len(sample) |-> all_knowledge[sample[i]]]

\* The payload draws that are possible for a pool of n knowledge entries.
PayloadsFor(n) ==
    { p \in PayloadDraws :
        /\ Len(p.sample) >= 1 /\ Len(p.sample) <= Min(3, n)
        /\ \A i \in 1..Len(p.sample) : p.sample[i] \in 1..n
        /\ \A i, j \in 1..Len(p.sample) : i # j => p.sample[i] # p.sample[j] }

\* _execute_successful_voyage updating the destination from the registry the
\* origin's update has already changed.
execute_successful_voyage_chained(isl, exchanges, origin, dest, intent, cx, tv, sample) ==
    LET isl1 == [isl EXCEPT ![origin.name] = _update_island_connectivity(origin, Frac(10))]
        isl2 == [isl1 EXCEPT ![dest.name] =
                    _update_island_connectivity(isl1[dest.name], Frac(10))]
    IN [ islands |-> isl2,
         cultural_exchanges |-> exchanges + 1,
         result |-> [ NoResult EXCEPT !.success = TRUE, !.origin_island = origin.name,
                                      !.destination_island = dest.name,
                                      !.monsoon_favorable = TRUE,
                                      !.cultural_exchange = cx, !.trade_volume = tv ] ]

\* _execute_successful_voyage counting a cultural exchange only when cultural
\* artifacts were exchanged.
execute_successful_voyage_if_artifacts(isl, exchanges, origin, dest, intent, cx, tv, sample) ==
    LET isl1 == [isl EXCEPT ![origin.name] = _update_island_connectivity(origin, Frac(10))]
        isl2 == [isl1 EXCEPT ![dest.name] = _update_island_connectivity(dest, Frac(10))]
    IN [ islands |-> isl2,
         cultural_exchanges |-> IF cx.cultural_artifacts > 0 THEN exchanges + 1
                                ELSE exchanges,
         result |-> [ NoResult EXCEPT !.success = TRUE, !.origin_island = origin.name,
                                      !.destination_island = dest.name,
                                      !.monsoon_favorable = TRUE,
                                      !.cultural_exchange = cx, !.trade_volume = tv ] ]

\* _execute_successful_voyage carrying trade goods only on a voyage whose
\* intent is trade.
execute_successful_voyage_by_intent(isl, exchanges, origin, dest, intent, cx, tv, sample) ==
    LET isl1 == [isl EXCEPT ![origin.name] = _update_island_connectivity(origin, Frac(10))]
        isl2 == [isl1 EXCEPT ![dest.name] = _update_island_connectivity(dest, Frac(10))]
    IN [ islands |-> isl2,
         cultural_exchanges |-> exchanges + 1,
         result |-> [ NoResult EXCEPT !.success = TRUE, !.origin_island = origin.name,
                                      !.destination_island = dest.name,
                                      !.monsoon_favorable = TRUE,
                                      !.cultural_exchange = cx,
                                      !.trade_volume = IF intent = "trade" THEN tv ELSE 0 ] ]

\* _execute_successful_voyage: the registry after the two connectivity
\* updates (both computed from the IslandState values read before the call),
\* the counter, and the NavigationResult.
_execute_successful_voyage(isl, exchanges, origin, dest, intent, cx, tv, sample) ==
    LET connectivity_boost == Frac(10)
        isl1 == [isl EXCEPT ![origin.name] =
                    _update_island_connectivity(origin, connectivity_boost)]
        isl2 == [isl1 EXCEPT ![dest.name] =
                    _update_island_connectivity(dest, connectivity_boost)]
    IN [ islands |-> isl2,
         cultural_exchanges |-> exchanges + 1,
         result |->
            [ success |-> TRUE,
              origin_island |-> origin.name,
              destination_island |-> dest.name,
              route_taken |-> <<origin.name, "->", dest.name, "via monsoon currents">>,
              monsoon_favorable |-> TRUE,
              cultural_exchange |-> cx,
              trade_volume |-> tv,
              knowledge_transferred |-> _generate_knowledge_transfer(origin, dest, sample),
              network_effects |->
                 << <<"Strengthened", origin.name, dest.name, "trade route">>,
                    <<"Enhanced cultural resonance between islands">> >> ] ]

\* _handle_navigation_failure penalising the destination as well as the origin.
handle_navigation_failure_both(isl, disruptions, origin, destination) ==
    LET isl1 == [isl EXCEPT ![origin] = _update_island_connectivity(isl[origin], - Frac(5))]
    IN [ islands |->
            [isl1 EXCEPT ![destination] =
                _update_island_connectivity(isl1[destination], - Frac(5))],
         disruption_events |-> disruptions + 1,
         result |->
            [ NoResult EXCEPT !.origin_island = origin, !.destination_island = destination,
                              !.route_taken = <<"Navigation failed">> ] ]

\* _handle_navigation_failure that forgets to count the disruption.
handle_navigation_failure_uncounted(isl, disruptions, origin, destination) ==
    [ islands |->
         [isl EXCEPT ![origin] = _update_island_connectivity(isl[origin], - Frac(5))],
      disruption_events |-> disruptions,
      result |->
         [ NoResult EXCEPT !.origin_island = origin, !.destination_island = destination,
                           !.route_taken = <<"Navigation failed">> ] ]

\* _handle_navigation_failure: the registry after the penalty on the origin,
\* the counter, and the NavigationResult.
_handle_navigation_failure(isl, disruptions, origin, destination) ==
    [ islands |->
         IF origin \in DOMAIN isl
         THEN [isl EXCEPT ![origin] = _update_island_connectivity(isl[origin], - Frac(5))]
         ELSE isl,
      disruption_events |-> disruptions + 1,
      result |->
         [ success |-> FALSE,
           origin_island |-> origin,
           destination_island |-> destination,
           route_taken |-> <<"Navigation failed">>,
           monsoon_favorable |-> FALSE,
           cultural_exchange |-> <<>>,
           trade_volume |-> 0,
           knowledge_transferred |-> <<>>,
           network_effects |-> << <<"Route disruption between", origin, destination>> >> ] ]

\* _update_network_state: the state derived from the coherence and the counters.
_update_network_state(isl, total, successful) ==
    LET coherence == calculate_network_coherence(isl)
    IN IF coherence >= TRANSCENDENCE_THRESHOLD THEN TRANSCENDENT
       ELSE IF coherence >= SYNC_THRESHOLD THEN SYNCHRONIZED
       ELSE IF coherence <= DISRUPTION_THRESHOLD THEN DISRUPTED
       ELSE IF total > 0 /\ voyage_success_rate(total, successful) > Frac(50)
            THEN CONNECTING
       ELSE FRAGMENTED

\* advance_cycle carrying the days beyond the threshold into the next phase.
advance_cycle_carry(phase, counter, transitions, days) ==
    LET added == counter + days
    IN IF added >= _phase_duration
       THEN [ phase |-> _transition_phase(phase), counter |-> added - _phase_duration,
              transitions |-> transitions + 1 ]
       ELSE [ phase |-> phase, counter |-> added, transitions |-> transitions ]

\* advance_cycle changing phase only once the counter has passed the threshold.
advance_cycle_past_threshold(phase, counter, transitions, days) ==
    LET added == counter + days
    IN IF added > _phase_duration
       THEN [ phase |-> _transition_phase(phase), counter |-> 0,
              transitions |-> transitions + 1 ]
       ELSE [ phase |-> phase, counter |-> added, transitions |-> transitions ]

\* MonsoonCalculator.advance_cycle: the phase, the counter and the number of
\* _transition_phase calls after adding `days`.
advance_cycle(phase, counter, transitions, days) ==
    LET added == counter + days
    IN IF added >= _phase_duration
       THEN [ phase |-> _transition_phase(phase), counter |-> 0,
              transitions |-> transitions + 1 ]
       ELSE [ phase |-> phase, counter |-> added, transitions |-> transitions ]

\* navigate_between_islands deriving the network state before the voyage's
\* connectivity and counter updates.
voyage_stale_state(isl, total, successful, exchanges, disruptions, phase, origin, destination, intent, random, cx, tv, sample) ==
    LET origin_island == isl[origin]
        dest_island == isl[destination]
        prob == final_success_prob(isl, phase, origin, destination)
        success == navigation_success(random, prob)
        ok == _execute_successful_voyage(isl, exchanges, origin_island, dest_island,
                                         intent, cx, tv, sample)
        ko == _handle_navigation_failure(isl, disruptions, origin, destination)
    IN [ islands |-> IF success THEN ok.islands ELSE ko.islands,
         total_voyages |-> total + 1,
         successful_voyages |-> IF success THEN successful + 1 ELSE successful,
         cultural_exchanges |-> IF success THEN ok.cultural_exchanges ELSE exchanges,
         disruption_events |-> IF success THEN disruptions ELSE ko.disruption_events,
         network_state |-> _update_network_state(isl, total, successful),
         final_success_prob |-> prob,
         result |-> IF success THEN ok.result ELSE ko.result ]

\* navigate_between_islands reporting in the result the favourable flag that
\* the monsoon calculator computed for the route.
voyage_reporting_calculated_flag(isl, total, successful, exchanges, disruptions, phase, origin, destination, intent, random, cx, tv, sample) ==
    LET prob == final_success_prob(isl, phase, origin, destination)
        success == navigation_success(random, prob)
        ok == _execute_successful_voyage(isl, exchanges, isl[origin], isl[destination],
                                         intent, cx, tv, sample)
        ko == _handle_navigation_failure(isl, disruptions, origin, destination)
        isl1 == IF success THEN ok.islands ELSE ko.islands
        successful1 == IF success THEN successful + 1 ELSE successful
        returned == IF success THEN ok.result ELSE ko.result
    IN [ islands |-> isl1,
         total_voyages |-> total + 1,
         successful_voyages |-> successful1,
         cultural_exchanges |-> IF success THEN ok.cultural_exchanges ELSE exchanges,
         disruption_events |-> IF success THEN disruptions ELSE ko.disruption_events,
         network_state |-> _update_network_state(isl1, total + 1, successful1),
         final_success_prob |-> prob,
         result |-> [returned EXCEPT !.monsoon_favorable =
                        is_navigation_favorable(phase, origin, destination).favorable] ]

\* navigate_between_islands once both names are known to be registered: the
\* controller's fields after the call, and its result.
voyage(isl, total, successful, exchanges, disruptions, phase, origin, destination, intent, random, cx, tv, sample) ==
    LET total1 == total + 1
        origin_island == isl[origin]
        dest_island == isl[destination]
        prob == final_success_prob(isl, phase, origin, destination)
        success == navigation_success(random, prob)
        ok == _execute_successful_voyage(isl, exchanges, origin_island, dest_island,
                                         intent, cx, tv, sample)
        ko == _handle_navigation_failure(isl, disruptions, origin, destination)
        isl1 == IF success THEN ok.islands ELSE ko.islands
        successful1 == IF success THEN successful + 1 ELSE successful
    IN [ islands |-> isl1,
         total_voyages |-> total1,
         successful_voyages |-> successful1,
         cultural_exchanges |-> IF success THEN ok.cultural_exchanges ELSE exchanges,
         disruption_events |-> IF success THEN disruptions ELSE ko.disruption_events,
         network_state |-> _update_network_state(isl1, total1, successful1),
         final_success_prob |-> prob,
         result |-> IF success THEN ok.result ELSE ko.result ]

\* The accepted voyages explored on a controller with registry isl.
VoyageBound(isl) ==
    IF Cardinality(DOMAIN isl) = 1 THEN MaxSoloVoyages ELSE MaxVoyages

\* navigate_between_islands counting the voyage before it validates the names.
navigate_rejected_counted(origin, destination, intent) ==
    /\ origin \notin DOMAIN islands \/ destination \notin DOMAIN islands
    /\ op' = "navigate"
    /\ raised' = "ValueError"
    /\ call' = [origin |-> origin, destination |-> destination,
                random |-> -1, final_success_prob |-> -1, days |-> 0]
    /\ result' = NoResult
    /\ _total_voyages' = _total_voyages + 1
    /\ UNCHANGED << islands, network_state, _successful_voyages,
                    _cultural_exchanges, _disruption_events, current_phase,
                    _day_counter, phase_transitions >>

\* navigate_between_islands(origin, destination, intent) with unregistered
\* names: the ValueError of line 226, raised before anything is assigned.
navigate_rejected(origin, destination, intent) ==
    /\ origin \notin DOMAIN islands \/ destination \notin DOMAIN islands
    /\ op' = "navigate"
    /\ raised' = "ValueError"
    /\ call' = [origin |-> origin, destination |-> destination,
                random |-> -1, final_success_prob |-> -1, days |-> 0]
    /\ result' = NoResult
    /\ UNCHANGED << islands, network_state, _total_voyages, _successful_voyages,
                    _cultural_exchanges, _disruption_events, current_phase,
                    _day_counter, phase_transitions >>

\* navigate_between_islands(origin, destination, intent) with registered
\* names, lines 228-260.
navigate_accepted(origin, destination, intent, random, cx, tv, sample) ==
    /\ origin \in DOMAIN islands /\ destination \in DOMAIN islands
    /\ \E v \in { voyage(islands, _total_voyages, _successful_voyages,
                         _cultural_exchanges, _disruption_events, current_phase,
                         origin, destination, intent, random, cx, tv, sample) },
          m \in { advance_cycle(current_phase, _day_counter, phase_transitions, 1) } :
            /\ m.transitions <= MaxTransitions
            /\ op' = "navigate"
            /\ raised' = "none"
            /\ call' = [origin |-> origin, destination |-> destination,
                        random |-> random, final_success_prob |-> v.final_success_prob,
                        days |-> 0]
            /\ islands' = v.islands
            /\ _total_voyages' = v.total_voyages
            /\ _successful_voyages' = v.successful_voyages
            /\ _cultural_exchanges' = v.cultural_exchanges
            /\ _disruption_events' = v.disruption_events
            /\ network_state' = v.network_state
            /\ result' = v.result
            /\ current_phase' = m.phase
            /\ _day_counter' = m.counter
            /\ phase_transitions' = m.transitions

\* Any call of navigate_between_islands a caller can make.  The payload draws
\* are made on the success path only, so they are enumerated only there.
Navigate ==
    \E origin \in IslandNames, destination \in IslandNames, intent \in Intents :
        \/ navigate_rejected(origin, destination, intent)
        \/ \E random \in RandomDraws :
              /\ _total_voyages < VoyageBound(islands)
              /\ IF origin \in DOMAIN islands /\ destination \in DOMAIN islands
                    /\ navigation_success(random,
                           final_success_prob(islands, current_phase, origin, destination))
                 THEN \E p \in PayloadsFor(6) :
                          navigate_accepted(origin, destination, intent, random,
                                            p.cx, p.tv, p.sample)
                 ELSE \E p \in { CHOOSE q \in PayloadDraws : TRUE } :
                          navigate_accepted(origin, destination, intent, random,
                                            p.cx, p.tv, p.sample)

\* monsoon_calc.advance_cycle(days), called on the controller's calculator.
AdvanceCycle(days) ==
    \E m \in { advance_cycle(current_phase, _day_counter, phase_transitions, days) } :
       /\ m.transitions <= MaxTransitions
       /\ op' = "advance_cycle"
       /\ call' = [NoCall EXCEPT !.days = days]
       /\ raised' = "none"
       /\ result' = NoResult
       /\ current_phase' = m.phase
       /\ _day_counter' = m.counter
       /\ phase_transitions' = m.transitions
       /\ UNCHANGED << islands, network_state, _total_voyages, _successful_voyages,
                       _cultural_exchanges, _disruption_events >>

\* ------------------------------------------------------ specifications --
\* A controller driven by navigate calls alone.
Next == Navigate

Spec == Init /\ [][Next]_vars

\* The monsoon calculator of a fresh controller, advanced by any number of days.
NextMonsoon == \E days \in DaysDraws : AdvanceCycle(days)

SpecMonsoon == Init /\ [][NextMonsoon]_vars

\* A controller that sails one route, from java, for longer than a monsoon
\* phase lasts: every voyage draws certain success or certain failure (the
\* successes explored are the first MaxSeasonSuccesses), and calls naming an
\* unregistered island come in between.
NavigateSeason ==
    \/ navigate_rejected("atlantis", "java", "trade")
    \/ /\ _total_voyages < MaxSeasonVoyages
       /\ \E destination \in {IF "sumatra" \in DOMAIN islands THEN "sumatra" ELSE "java"},
             random \in SeasonDraws, p \in { CHOOSE q \in PayloadsFor(6) : TRUE } :
                /\ random = 0 => _successful_voyages < MaxSeasonSuccesses
                /\ navigate_accepted("java", destination, "trade", random,
                                     p.cx, p.tv, p.sample)

NextSeason == NavigateSeason

SpecSeason == Init /\ [][NextSeason]_vars

\* ---------------------------------------------------------------- claims --
\* A step that is an accepted navigate call (it returned a NavigationResult).
AcceptedStep == op' = "navigate" /\ raised' = "none"

\* A step that is a navigate call naming an island the registry does not hold.
RejectedStep ==
    /\ op' = "navigate"
    /\ call'.origin \notin DOMAIN islands \/ call'.destination \notin DOMAIN islands

\* C1: in every state reachable by navigate calls (successful, failed or
\* rejected), every island of the registry has 0 <= connectivity <= 1 and
\* 0 <= autonomy <= 1.
C1_ConnectivityAndAutonomyInRange ==
    \A n \in DOMAIN islands :
        /\ 0 <= islands[n].network_connectivity
        /\ islands[n].network_connectivity <= Scale
        /\ 0 <= islands[n].autonomy_level
        /\ islands[n].autonomy_level <= Scale

\* C1 witness: a voyage failed from an origin whose connectivity was already
\* 0 (eight failures take 0.4 to 0, the ninth is clamped).
C1_Witness ==
    /\ _disruption_events = 9
    /\ op = "navigate" /\ raised = "none" /\ ~ result.success
    /\ islands[result.origin_island].network_connectivity = 0

C3_CountersStepOncePerVoyage ==
    [][ /\ _total_voyages' >= _total_voyages
        /\ _successful_voyages' >= _successful_voyages
        /\ _cultural_exchanges' >= _cultural_exchanges
        /\ _disruption_events' >= _disruption_events
        /\ AcceptedStep =>
             /\ _total_voyages' = _total_voyages + 1
             /\ IF result'.success
                THEN /\ _successful_voyages' = _successful_voyages + 1
                     /\ _disruption_events' = _disruption_events
                ELSE /\ _disruption_events' = _disruption_events + 1
                     /\ _successful_voyages' = _successful_voyages ]_vars

\* C3 witness: a voyage has failed after another had succeeded.
C3_Witness ==
    /\ op = "navigate" /\ raised = "none" /\ ~ result.success
    /\ _successful_voyages = 1 /\ _disruption_events = 1 /\ _total_voyages = 2

\* The network state the first-match rule of C4 gives.
C4_Rule(coherence, total, successful) ==
    CASE coherence >= Frac(95) -> TRANSCENDENT
      [] coherence < Frac(95) /\ coherence >= Frac(75) -> SYNCHRONIZED
      [] coherence < Frac(75) /\ coherence <= Frac(30) -> DISRUPTED
      [] coherence < Frac(75) /\ coherence > Frac(30)
         /\ total > 0 /\ 2 * successful > total -> CONNECTING
      [] OTHER -> FRAGMENTED

\* C4: after every accepted navigate call the stored network state is the one
\* the first-match rule (>= 0.95 transcendent, >= 0.75 synchronized, <= 0.30
\* disrupted, voyages made and success rate > 0.5 connecting, else fragmented)
\* gives for the coherence of the registry after the voyage's connectivity
\* updates and for the counters that include the voyage.
C4_NetworkStateIsDerived ==
    (op = "navigate" /\ raised = "none") =>
        network_state = C4_Rule(calculate_network_coherence(islands),
                                _total_voyages, _successful_voyages)

\* C4 witness: the first voyage of a one-island controller succeeded; the
\* coherence was 0.7 before it and is 0.75, synchronized, after it.
C4_Witness ==
    /\ op = "navigate" /\ raised = "none"
    /\ _total_voyages = 1 /\ result.success
    /\ calculate_network_coherence(islands) = Frac(75)
    /\ network_state = SYNCHRONIZED

\* The phase the cycle of C5 gives after k transitions from northeast.
C5_CyclePhase(k) ==
    << NORTHEAST_MONSOON, TRANSITION_PERIOD, SOUTHWEST_MONSOON, TRANSITION_PERIOD >>[(k % 4) + 1]

\* C5 as stated: from northeast, successive phase transitions produce the
\* cycle northeast, transition, southwest, transition, northeast, ...; the
\* transition phase entered from southwest leads to northeast, so northeast
\* recurs after every four transitions.
C5_PhasesFollowTheCycle == current_phase = C5_CyclePhase(phase_transitions)

\* C6: for the monsoon calculator under advance_cycle(days) calls with
\* days >= 1, the phase changes during a call if and only if the day counter
\* plus days reaches 180; when it changes there is exactly one transition and
\* the counter is 0 afterwards; otherwise the phase is unchanged and the
\* counter grows by days; so 0 <= day counter < 180 after every call.
C6_AdvanceCrossesThresholdOnce ==
    /\ [](0 <= _day_counter /\ _day_counter < 180)
    /\ [][ op' = "advance_cycle" =>
             LET days == call'.days
                 reaches == _day_counter + days >= 180
             IN /\ days >= 1
                /\ (current_phase' # current_phase) <=> reaches
                /\ reaches => /\ phase_transitions' = phase_transitions + 1
                              /\ _day_counter' = 0
                /\ ~ reaches => /\ phase_transitions' = phase_transitions
                                /\ current_phase' = current_phase
                                /\ _day_counter' = _day_counter + days ]_vars

\* C6 witness: advance_cycle(360) has been called after a first transition:
\* two thresholds' worth of days made the second transition and left 0.
C6_Witness ==
    /\ op = "advance_cycle" /\ call.days = 360
    /\ phase_transitions = 2 /\ _day_counter = 0
    /\ current_phase = SOUTHWEST_MONSOON

\* C7: a failed voyage sets the origin's connectivity to
\* max(0, previous - 0.05) and leaves the connectivity of every island other
\* than the origin, the destination among them, unchanged; an origin at 0.03
\* ends at 0.0.
C7_FailurePenalisesOriginOnly ==
    [][ /\ _update_island_connectivity(
              [IslandState("java", CULTURAL_NODE) EXCEPT !.network_connectivity = Frac(3)],
              - Frac(5)).network_connectivity = 0
        /\ (AcceptedStep /\ ~ result'.success) =>
             LET o == result'.origin_island
             IN /\ o = call'.origin
                /\ islands'[o].network_connectivity =
                      Max(0, islands[o].network_connectivity - Frac(5))
                /\ \A n \in DOMAIN islands \ {o} :
                      islands'[n].network_connectivity = islands[n].network_connectivity
                /\ DOMAIN islands' = DOMAIN islands ]_vars

\* C7 witness: the first voyage, between two different islands, failed: the
\* origin is at 0.35 and the destination still at 0.4.
C7_Witness ==
    /\ op = "navigate" /\ raised = "none" /\ ~ result.success
    /\ _total_voyages = 1
    /\ result.origin_island # result.destination_island
    /\ islands[result.origin_island].network_connectivity = Frac(35)
    /\ islands[result.destination_island].network_connectivity = Frac(40)

\* C8: a successful voyage sets the connectivity of the origin and of the
\* destination each to min(1, its previous connectivity + 0.1), leaves the
\* connectivity of every other island unchanged, changes no other field of
\* any island, and keeps the set of island names.
C8_SuccessBoostsBothEnds ==
    [][ (AcceptedStep /\ result'.success) =>
          LET o == result'.origin_island
              d == result'.destination_island
          IN /\ o = call'.origin /\ d = call'.destination
             /\ DOMAIN islands' = DOMAIN islands
             /\ \A n \in {o, d} :
                   islands'[n].network_connectivity =
                      Min(Scale, islands[n].network_connectivity + Frac(10))
             /\ \A n \in DOMAIN islands \ {o, d} :
                   islands'[n].network_connectivity = islands[n].network_connectivity
             /\ \A n \in DOMAIN islands :
                   /\ islands'[n].name = islands[n].name
                   /\ islands'[n].specialization = islands[n].specialization
                   /\ islands'[n].autonomy_level = islands[n].autonomy_level
                   /\ islands'[n].cultural_resonance = islands[n].cultural_resonance
                   /\ islands'[n].resource_capacity = islands[n].resource_capacity
                   /\ islands'[n].innovation_index = islands[n].innovation_index ]_vars

\* C8 witness: a seventh voyage succeeded on an island that six successes had
\* already taken to connectivity 1.
C8_Witness ==
    /\ op = "navigate" /\ raised = "none" /\ result.success
    /\ _successful_voyages = 7 /\ _disruption_events = 0
    /\ islands[result.origin_island].network_connectivity = Scale

\* C9: a successful voyage adds exactly 1 to the cultural-exchange counter
\* whatever cultural-exchange payload it synthesizes, and a failed voyage
\* leaves the counter unchanged.
C9_OneExchangePerSuccess ==
    [][ AcceptedStep =>
          IF result'.success
          THEN _cultural_exchanges' = _cultural_exchanges + 1
          ELSE _cultural_exchanges' = _cultural_exchanges ]_vars

\* C9 witness: a voyage that exchanged no cultural artifacts succeeded and was
\* counted, after one failure that was not.
C9_Witness ==
    /\ op = "navigate" /\ raised = "none" /\ result.success
    /\ result.cultural_exchange.cultural_artifacts = 0
    /\ _cultural_exchanges = 2 /\ _disruption_events = 1

\* clamp(x, lo, hi)
C10_Clamp(x, lo, hi) == IF x < lo THEN lo ELSE IF x > hi THEN hi ELSE x

\* The success probability C10 states for the route origin -> destination in
\* registry isl during `phase`.
C10_Probability(isl, phase, origin, destination) ==
    LET factor == is_navigation_favorable(phase, origin, destination).factor
        synergy == _calculate_specialization_synergy(isl[origin], isl[destination])
    IN C10_Clamp((isl[origin].network_connectivity
                     + isl[destination].network_connectivity) \div 2
                 + (IF factor > Frac(60) THEN Frac(30) ELSE - Frac(20))
                 + synergy,
                 Frac(5), Frac(95))

\* C10: for every pair of registered islands, in every reachable state and
\* every monsoon phase, the success probability navigate uses is
\* clamp((origin connectivity + destination connectivity) / 2
\*       + (0.3 if the monsoon factor is > 0.6 else -0.2) + synergy, 0.05, 0.95),
\* so it is in [0.05, 0.95]; it is 0.2 with both islands at 0.4, zero synergy
\* and the neutral factor 0.5; and the voyage succeeds exactly when the single
\* uniform draw is strictly less than the probability.
C10_SuccessProbability ==
    /\ [](\A o \in DOMAIN islands, d \in DOMAIN islands, ph \in MonsoonPhase :
            LET p == final_success_prob(islands, ph, o, d)
            IN /\ p = C10_Probability(islands, ph, o, d)
               /\ Frac(5) <= p /\ p <= Frac(95)
               /\ ( /\ islands[o].network_connectivity = Frac(40)
                    /\ islands[d].network_connectivity = Frac(40)
                    /\ _calculate_specialization_synergy(islands[o], islands[d]) = 0
                    /\ is_navigation_favorable(ph, o, d).factor = Frac(50) )
                  => p = Frac(20))
    /\ [][ AcceptedStep =>
             LET p == C10_Probability(islands, current_phase, call'.origin,
                                      call'.destination)
             IN /\ call'.final_success_prob = p
                /\ result'.success <=> (call'.random < p) ]_vars

\* C10 witness: a voyage whose draw equalled its success probability failed.
C10_Witness ==
    /\ op = "navigate" /\ raised = "none"
    /\ call.random = call.final_success_prob
    /\ ~ result.success


\* C12: the intent argument of navigate has no effect.  Every accepted
\* navigate step is also the step of the same call made with any other intent
\* from the same prior state with the same origin, destination and random
\* draws: the same success probability, success flag and result payload, and
\* the same post-call state.  (The payload draws of a successful step are
\* read off its result; a failed step makes none.)
C12_IntentHasNoEffect ==
    [][ AcceptedStep =>
          \A intent \in Intents :
             \E p \in { q \in PayloadDraws :
                          result'.success => /\ q.cx = result'.cultural_exchange
                                             /\ q.tv = result'.trade_volume } :
                navigate_accepted(call'.origin, call'.destination, intent,
                                  call'.random, p.cx, p.tv, p.sample) ]_vars

\* C12 witness: a second voyage succeeded between two islands and returned
\* the payload of its draws, whichever intent it was called with.
C12_Witness ==
    /\ op = "navigate" /\ raised = "none" /\ result.success
    /\ _total_voyages = 2
    /\ call.origin = "borneo" /\ call.destination = "sumatra"
    /\ result.trade_volume = 125 /\ Len(result.knowledge_transferred) = 3

\* C13 as stated: constructing a controller from an empty mapping is rejected,
\* so no controller with an empty island registry is ever reachable.
C13_RegistryNeverEmpty == DOMAIN islands # {}

\* C14: in every reachable state of the controller the network coherence is
\* in [0, 1]; it is exactly 0.0 for an empty registry; and for a registry of
\* one island it equals (average connectivity + 1.0) / 2, the average being
\* that island's connectivity.
C14_CoherenceInRange ==
    LET coherence == calculate_network_coherence(islands)
    IN /\ 0 <= coherence /\ coherence <= Scale
       /\ DOMAIN islands = {} => coherence = 0
       /\ Cardinality(DOMAIN islands) = 1 =>
             \A n \in DOMAIN islands :
                2 * coherence = islands[n].network_connectivity + Scale

\* C14 witness: a one-island controller whose connectivity its successful
\* voyages have raised to 1.0, so that its coherence is 1.0, the upper end.
C14_Witness ==
    /\ DOMAIN islands = {"java"}
    /\ _successful_voyages >= 6
    /\ islands["java"].network_connectivity = Scale
    /\ calculate_network_coherence(islands) = Scale

\* C15: in every monsoon phase and for every pair of island names (a, b),
\* favorability(a, b) returns the same factor as favorability(b, a); the
\* factor is 0.5 when neither ordered pair is in the current phase's table,
\* in particular for every pair during the transition phase; and the
\* favorable flag is true exactly when the factor is > 0.6.
C15_FavorabilityIsDirectionAgnostic ==
    \A a \in RouteNames, b \in RouteNames :
       LET ab == is_navigation_favorable(current_phase, a, b)
           ba == is_navigation_favorable(current_phase, b, a)
           listed == \E e \in route_favorability(current_phase) :
                        \/ e[1] = Lower(a) /\ e[2] = Lower(b)
                        \/ e[1] = Lower(b) /\ e[2] = Lower(a)
       IN /\ ab.factor = ba.factor
          /\ ~ listed => ab.factor = Frac(50)
          /\ current_phase = TRANSITION_PERIOD => ab.factor = Frac(50)
          /\ ab.favorable <=> ab.factor > Frac(60)

\* C15 witness: the calculator has reached the southwest monsoon, whose table
\* lists sumatra -> java only, and java -> sumatra is favourable with the
\* factor 0.8 of the reverse entry.
C15_Witness ==
    /\ op = "advance_cycle"
    /\ current_phase = SOUTHWEST_MONSOON
    /\ ~ \E e \in route_favorability(current_phase) : e[1] = "java" /\ e[2] = "sumatra"
    /\ is_navigation_favorable(current_phase, "java", "sumatra")
          = [favorable |-> TRUE, factor |-> Frac(80)]

\* The unordered pairs of specializations that the synergy table of C16 lists.
C16_ListedPairs ==
    { {MARITIME_HUB, SPICE_PRODUCER}, {TECH_ENTREPOT, CULTURAL_NODE},
      {CULTURAL_NODE, SPICE_PRODUCER}, {MARITIME_HUB, TECH_ENTREPOT} }

\* C16: for all specializations a and b, synergy(a, b) = synergy(b, a), and
\* the value is 0.0 when neither ordering of the pair is in the fixed table,
\* which includes every pair of equal specializations; so the synergy of any
\* two islands of the registry is the same in both directions.
C16_SynergyIsSymmetric ==
    /\ \A a \in IslandSpecialization, b \in IslandSpecialization :
          LET ab == _calculate_specialization_synergy(IslandState("a", a), IslandState("b", b))
              ba == _calculate_specialization_synergy(IslandState("b", b), IslandState("a", a))
          IN /\ ab = ba
             /\ {a, b} \notin C16_ListedPairs => ab = 0
             /\ a = b => ab = 0
    /\ \A o \in DOMAIN islands, d \in DOMAIN islands :
          _calculate_specialization_synergy(islands[o], islands[d])
             = _calculate_specialization_synergy(islands[d], islands[o])

\* C16 witness: the first voyage sailed from the spice producer sumatra to the
\* maritime hub borneo, a pair the table lists in the other order only; its
\* probability 0.4 - 0.2 + 0.2 includes the synergy 0.2 of the reverse entry.
C16_Witness ==
    /\ op = "navigate" /\ raised = "none" /\ _total_voyages = 1
    /\ call.origin = "sumatra" /\ call.destination = "borneo"
    /\ islands["sumatra"].specialization = SPICE_PRODUCER
    /\ islands["borneo"].specialization = MARITIME_HUB
    /\ call.final_success_prob = Frac(40)

\* C17 as stated: on every successful voyage between two registered islands,
\* whatever their specializations (two islands of one specialization
\* included), the knowledge-transferred list has between 1 and 3 entries,
\* contains no entry twice, and every entry belongs to the knowledge pool of
\* the origin's or the destination's specialization.
C17_KnowledgeSampleHasNoRepeats ==
    (/\ op = "navigate" /\ raised = "none" /\ result.success
     /\ result.origin_island # result.destination_island) =>
        LET knowledge == result.knowledge_transferred
            origin_pool == transfer_patterns(islands[result.origin_island].specialization)
            dest_pool == transfer_patterns(islands[result.destination_island].specialization)
            pool == {origin_pool[i] : i \in DOMAIN origin_pool}
                       \cup {dest_pool[i] : i \in DOMAIN dest_pool}
        IN /\ Len(knowledge) >= 1 /\ Len(knowledge) <= 3
           /\ \A i \in DOMAIN knowledge, j \in DOMAIN knowledge :
                 i # j => knowledge[i] # knowledge[j]
           /\ \A i \in DOMAIN knowledge : knowledge[i] \in pool

\* C18: every accepted voyage, successful or failed, advances the monsoon
\* cycle by exactly one tick, and a rejected call by none; so after k accepted
\* voyages on a fresh controller, with any number of rejected calls in
\* between, the day counter is k mod 180 and exactly floor(k / 180) phase
\* transitions have occurred.
C18_VoyagesTickTheMonsoon ==
    /\ _day_counter = _total_voyages % 180
    /\ phase_transitions = _total_voyages \div 180

\* C18 witness: a call was rejected after the 361st accepted voyage of a
\* controller whose voyages had both succeeded and failed; the phase has
\* changed twice and the day counter stands at 1.
C18_Witness ==
    /\ op = "navigate" /\ raised = "ValueError"
    /\ _total_voyages = 361
    /\ _successful_voyages > 0 /\ _disruption_events > 0
    /\ _day_counter = 1 /\ phase_transitions = 2
    /\ current_phase = SOUTHWEST_MONSOON

\* C19: in every reachable state of the controller, total voyages =
\* successful voyages + disruption events, and cultural exchanges =
\* successful voyages.
C19_CountersAddUp ==
    /\ _total_voyages = _successful_voyages + _disruption_events
    /\ _cultural_exchanges = _successful_voyages

\* C19 witness: three voyages between islands, two successful and one failed,
\* followed by a rejected call.
C19_Witness ==
    /\ op = "navigate" /\ raised = "ValueError"
    /\ Cardinality(DOMAIN islands) = 3
    /\ _total_voyages = 3 /\ _successful_voyages = 2 /\ _disruption_events = 1
    /\ _cultural_exchanges = 2

\* C20: for a controller built from a non-empty mapping, the network state
\* disrupted is never reached by any sequence of voyages: every island keeps
\* the cultural-resonance map it was constructed with, so the cultural
\* alignment is always 1.0 and the coherence is (average connectivity + 1) / 2,
\* at least 0.5 and so above the disruption threshold 0.30, however many
\* voyages fail.
C20_NeverDisrupted ==
    DOMAIN islands # {} =>
        LET conn == [n \in DOMAIN islands |-> islands[n].network_connectivity]
            coherence == calculate_network_coherence(islands)
        IN /\ network_state # DISRUPTED
           /\ \A n \in DOMAIN islands :
                 islands[n].cultural_resonance = IslandState(n, MARITIME_HUB).cultural_resonance
           /\ _calculate_cultural_alignment(islands) = Scale
           /\ 2 * coherence * Cardinality(DOMAIN islands)
                 = SumOver(conn, DOMAIN islands) + Scale * Cardinality(DOMAIN islands)
           /\ coherence >= Frac(50)
           /\ coherence > Frac(30)

\* C20 witness: three hundred voyages of a one-island controller have all
\* failed; its connectivity is 0, its coherence 0.5, the least possible, and
\* the state is still fragmented.
C20_Witness ==
    /\ op = "navigate" /\ raised = "none" /\ ~ result.success
    /\ DOMAIN islands = {"java"}
    /\ _disruption_events = 300 /\ _successful_voyages = 0
    /\ islands["java"].network_connectivity = 0
    /\ calculate_network_coherence(islands) = Frac(50)
    /\ network_state = FRAGMENTED

\* C21: in every NavigationResult returned by navigate the monsoon-favorable
\* flag equals the success flag, true on every successful voyage and false on
\* every failed one, whatever the flag the monsoon calculator computed for the
\* route; a failed result also carries trade volume 0, an empty
\* cultural-exchange mapping and an empty knowledge-transferred list.
C21_FavorableFlagIsSuccessFlag ==
    (op = "navigate" /\ raised = "none") =>
        /\ result.monsoon_favorable = result.success
        /\ ~ result.success =>
              /\ result.trade_volume = 0
              /\ DOMAIN result.cultural_exchange = {}
              /\ Len(result.knowledge_transferred) = 0

\* C21 witness: a voyage from java to sumatra failed during the northeast
\* monsoon, which favours that route, and its result is flagged unfavourable;
\* an earlier voyage had succeeded.
C21_Witness ==
    /\ op = "navigate" /\ raised = "none" /\ ~ result.success
    /\ _successful_voyages = 1 /\ _total_voyages = 2
    /\ call.origin = "java" /\ call.destination = "sumatra"
    /\ current_phase = NORTHEAST_MONSOON
    /\ is_navigation_favorable(current_phase, "java", "sumatra").favorable
    /\ ~ result.monsoon_favorable

=============================================================================
